---- MODULE Spec2Model ----
(***************************************************************************)
(* State-machine model of keithleygui/main.py: the main window             *)
(* (KeithleyGuiApp), its settings widgets, the sweep thread (MeasureThread) *)
(* and the real-time thread (RealtimeMeasureThread).                       *)
(*                                                                         *)
(* The UI thread runs one handler at a time (uiPc = "idle" between          *)
(* handlers).  Signals emitted by a background thread are queued           *)
(* connections: they are appended to `queue` and handled later by the UI   *)
(* thread in order.  A driver call that takes time (a measurement, an      *)
(* apply_voltage, a reset) is a program position of its own, so that the   *)
(* state in which the call is in progress exists.                          *)
(*                                                                         *)
(* Not modelled: the VISA timeout that run() raises and restores           *)
(* (main.py 1209-1215, 1292-1296), status-bar texts, the LED, the plot     *)
(* contents and the window geometry.                                       *)
(***************************************************************************)
EXTENDS Integers, Sequences, FiniteSets, TLC

\* ------------------------------------------------------------------ bounds
MaxThreads == 2      \* real-time thread objects created in one behaviour
MaxSweeps == 2       \* sweep thread objects created in one behaviour
MaxSamples == 2      \* samples one real-time thread takes
MaxVolt == 1         \* the voltage field ranges over 0..MaxVolt
MaxEdits == 2        \* edits of settings fields in one behaviour
MaxFailed == 4       \* failed reads of one run that are counted

\* ------------------------------------------------------- program constants
max_consecutive_errors == 3
InitialVoltage == 1          \* RealtimeMeasureThread.current_voltage = 1.0

Volts == 0 .. MaxVolt
Placeholder == "--"
DefaultSmus == <<"smu1", "smu2">>
\* SMU lists dir(keithley) can yield once connected (padded by _get_smus)
DeviceSmus == { <<"smua", "smub">>, <<"smua", Placeholder>>,
                <<"smua", "smub", "smuc">> }

VARIABLES
    connected,        \* keithley.connected
    device,           \* the SMU names of the instrument on the bench
    linefreq,         \* keithley.localnode.linefreq of that instrument
    limits,           \* the extent of the session that is explored
    levelv,           \* source level of the instrument (apply_voltage)
    abort_event,      \* keithley.abort_event.is_set()
    smu_list,         \* KeithleyGuiApp.smu_list
    realtime_smu,     \* index of realtime_smu's current entry (0: none)
    realtime_voltage, \* value of the realtime_voltage spin box
    vcConnected,      \* voltage_value_changed_connected exists
    tab,              \* tabWidgetSweeps.currentIndex()
    gui,              \* enabled flags of buttons, fields and menu actions
    realtime_thread,  \* self.realtime_thread: 0 (None) or a thread id
    rt,               \* the RealtimeMeasureThread objects
    measureThread,    \* self.measureThread: 0 or a sweep thread id
    mt,               \* the MeasureThread objects
    queue,            \* queued signals not yet handled by the UI thread
    uiPc, uiArg,      \* position of the UI thread inside a handler
    msg,              \* title of the message box the last handler showed
    propagated,       \* handler an exception has propagated out of
    simIO,            \* an instrument call was made for a simulation run
    sweep,            \* SweepSettingsWidget fields
    tabs,             \* SMUSettingsWidget fields, one per smu_tabs entry
    panes,            \* transfer / output / IV pane fields
    CONF,             \* the settings store
    snap,             \* the GUI settings at the last on_save_default
    nEdits            \* field edits made so far (bounded by MaxEdits)

vars == <<connected, device, linefreq, limits, levelv, abort_event, smu_list,
          realtime_smu, realtime_voltage, vcConnected, tab, gui,
          realtime_thread, rt, measureThread, mt, queue, uiPc, uiArg, msg,
          propagated, simIO, sweep, tabs, panes, CONF, snap, nEdits>>

instrVars == <<device, linefreq, limits>>
settingVars == <<sweep, tabs, panes, CONF, snap, nEdits>>
sweepVars == <<measureThread, mt>>

\* ------------------------------------------------------------ signals
Signal(name, t, last) == [sig |-> name, src |-> t, last |-> last]
NoValue == <<0, 0, 0>>
Emit(name, t, last) == queue' = Append(queue, Signal(name, t, last))

\* ------------------------------------------ RealtimeMeasureThread objects
\* RealtimeMeasureThread.__init__; pc "unborn" is an object not yet created.
\* streak is a history of the run: the read attempts that have failed
\* since the last one that succeeded; failed counts the failed read
\* attempts of the whole run, as far as limits.failed; waited says that
\* time.sleep(self.interval) has returned since the last read attempt began.
NewThread(simulation_mode, smu) ==
    [pc |-> "run", running |-> TRUE, simulation_mode |-> simulation_mode,
     smu |-> smu, smu_name |-> Placeholder,
     consecutive_errors |-> 0, streak |-> 0, failed |-> 0,
     waited |-> FALSE,
     time_data |-> <<>>, voltage_data |-> <<>>, current_data |-> <<>>,
     current_voltage |-> InitialVoltage, lock |-> "free", v |-> 0]

Unborn == [NewThread(FALSE, FALSE) EXCEPT !.pc = "unborn", !.running = FALSE]

RtIds == 1 .. MaxThreads

\* QThread.isRunning(): started and run() not yet returned.
isRunning(t) == rt[t].pc \notin {"unborn", "done"}

\* Exceptions a driver call raises: a VISA timeout, another VisaIOError,
\* any other Exception.
ExcKinds == {"tmo", "visa", "other"}

\* The bound on the samples of one run.
MayAttempt(t) == Len(rt[t].time_data) < limits.samples

rtFrame == <<connected, instrVars, abort_event, smu_list,
             realtime_smu, realtime_voltage, vcConnected, tab, gui,
             realtime_thread, measureThread, mt, uiPc, uiArg, msg,
             propagated, simIO, sweep, tabs, panes, CONF, snap, nEdits>>

\* run(), its entry: the mode is chosen, the device and the SMU object are
\* checked and the lists are emptied.
RtBegin(t) ==
    /\ rt[t].pc = "run"
    /\ IF rt[t].simulation_mode
         THEN /\ rt' = [rt EXCEPT ![t].pc = "sim_loop", ![t].time_data = <<>>,
                                  ![t].voltage_data = <<>>,
                                  ![t].current_data = <<>>]
              /\ UNCHANGED queue
         ELSE IF ~connected \/ ~rt[t].smu
                THEN /\ rt' = [rt EXCEPT ![t].pc = "finally"]
                     /\ Emit("error", t, NoValue)
                ELSE /\ rt' = [rt EXCEPT ![t].pc = "loop",
                                         ![t].time_data = <<>>,
                                         ![t].voltage_data = <<>>,
                                         ![t].current_data = <<>>,
                                         ![t].consecutive_errors = 0]
                     /\ UNCHANGED queue
    /\ UNCHANGED <<rtFrame, levelv>>

\* A loop that does not look at the flag.
LoopExitNever(r) == FALSE

\* `while self.running:` of run() and of _run_simulation().
LoopExit(r) == ~r.running

RtLoopCheck(t) ==
    /\ rt[t].pc \in {"loop", "sim_loop"}
    /\ IF LoopExit(rt[t])
         THEN rt' = [rt EXCEPT ![t].pc = "finally"]
         ELSE /\ MayAttempt(t)
              /\ rt' = [rt EXCEPT ![t].pc =
                          IF rt[t].pc = "loop" THEN "measure_v" ELSE "sim_lock",
                                  ![t].waited = FALSE]
    /\ UNCHANGED <<rtFrame, levelv, queue>>

\* The except clauses of the sampling loop: the count goes up, and a VISA
\* timeout tries keithley.reset() before the count is looked at.
AfterFailure(r, kind) ==
    [r EXCEPT !.consecutive_errors = r.consecutive_errors + 1,
              !.streak = r.streak + 1,
              !.failed = IF r.failed < limits.failed THEN r.failed + 1 ELSE @,
              !.pc = IF kind = "tmo" THEN "recover" ELSE "err_check"]

\* self.smu.measure.v() returns or raises.
RtMeasureV(t) ==
    /\ rt[t].pc = "measure_v"
    /\ \/ rt' = [rt EXCEPT ![t].pc = "measure_i", ![t].v = levelv]
       \/ \E kind \in ExcKinds : rt' = [rt EXCEPT ![t] = AfterFailure(rt[t], kind)]
    /\ UNCHANGED <<rtFrame, levelv, queue>>

\* self.smu.measure.i() returns or raises.
RtMeasureI(t) ==
    /\ rt[t].pc = "measure_i"
    /\ \/ rt' = [rt EXCEPT ![t].pc = "append_t", ![t].streak = 0]
       \/ \E kind \in ExcKinds : rt' = [rt EXCEPT ![t] = AfterFailure(rt[t], kind)]
    /\ UNCHANGED <<rtFrame, levelv, queue>>

\* The recovery of a timeout: sleep, keithley.reset(), sleep; an exception
\* of the reset is caught.  The reset clears the source level.
RtRecover(t) ==
    /\ rt[t].pc = "recover"
    /\ rt' = [rt EXCEPT ![t].pc = "err_check"]
    /\ \/ levelv' = 0
       \/ UNCHANGED levelv
    /\ UNCHANGED <<rtFrame, queue>>

\* The limit test taken one failure early.
ErrLimitReachedEarly(n) == n >= max_consecutive_errors - 1

ErrLimitReached(n) == n >= max_consecutive_errors

\* A limit test that reports every failure and breaks at the limit only.
RtErrCheckReportsEach(t) ==
    /\ rt[t].pc = "err_check"
    /\ rt' = [rt EXCEPT ![t].pc =
                IF ErrLimitReached(rt[t].consecutive_errors)
                  THEN "finally" ELSE "loop"]
    /\ Emit("error", t, NoValue)
    /\ UNCHANGED <<rtFrame, levelv>>

\* `if consecutive_errors >= max_consecutive_errors:` emit and break,
\* otherwise continue.
RtErrCheck(t) ==
    /\ rt[t].pc = "err_check"
    /\ IF ErrLimitReached(rt[t].consecutive_errors)
         THEN /\ rt' = [rt EXCEPT ![t].pc = "finally"]
              /\ Emit("error", t, NoValue)
         ELSE /\ rt' = [rt EXCEPT ![t].pc = "loop"]
              /\ UNCHANGED queue
    /\ UNCHANGED <<rtFrame, levelv>>

\* The three appends of a sample; t and i are the sample's number.
RtAppendT(t) ==
    /\ rt[t].pc = "append_t"
    /\ rt' = [rt EXCEPT ![t].pc = "append_v",
                        ![t].time_data = Append(@, Len(@) + 1)]
    /\ UNCHANGED <<rtFrame, levelv, queue>>

RtAppendV(t) ==
    /\ rt[t].pc = "append_v"
    /\ rt' = [rt EXCEPT ![t].pc = "append_c",
                        ![t].voltage_data = Append(@, rt[t].v)]
    /\ UNCHANGED <<rtFrame, levelv, queue>>

\* A sample after which the error count is left as it is.
RtAppendCEmitNoReset(t) ==
    /\ rt[t].pc = "append_c"
    /\ LET k == Len(rt[t].time_data) IN
         /\ rt' = [rt EXCEPT ![t].pc = "sleep",
                             ![t].current_data = Append(@, k)]
         /\ Emit("data", t, <<k, rt[t].v, k>>)
    /\ UNCHANGED <<rtFrame, levelv>>

\* current_data.append(i), data_sig.emit(data) and, in run(), the reset of
\* the error count.  The dict holds the lists themselves and a tuple copy
\* of the last sample.
RtAppendCEmit(t) ==
    /\ rt[t].pc = "append_c"
    /\ LET k == Len(rt[t].time_data) IN
         /\ rt' = [rt EXCEPT ![t].pc = "sleep",
                             ![t].current_data = Append(@, k),
                             ![t].consecutive_errors = 0]
         /\ Emit("data", t, <<k, rt[t].v, k>>)
    /\ UNCHANGED <<rtFrame, levelv>>

\* time.sleep(self.interval) returns.
RtSleep(t) ==
    /\ rt[t].pc = "sleep"
    /\ rt' = [rt EXCEPT ![t].pc =
                IF rt[t].simulation_mode THEN "sim_loop" ELSE "loop",
                        ![t].waited = TRUE]
    /\ UNCHANGED <<rtFrame, levelv, queue>>

\* A read of the setpoint that does not wait for the mutex.
SimLockNoWait(t) ==
    /\ rt[t].pc = "sim_lock"
    /\ rt' = [rt EXCEPT ![t].pc = "sim_read", ![t].lock = "thread"]
    /\ UNCHANGED <<rtFrame, levelv, queue>>

\* _run_simulation: self.lock.lock() blocks while the mutex is held.
SimLock(t) ==
    /\ rt[t].pc = "sim_lock"
    /\ rt[t].lock = "free"
    /\ rt' = [rt EXCEPT ![t].pc = "sim_read", ![t].lock = "thread"]
    /\ UNCHANGED <<rtFrame, levelv, queue>>

\* simulated_voltage = self.current_voltage
SimRead(t) ==
    /\ rt[t].pc = "sim_read"
    /\ rt' = [rt EXCEPT ![t].pc = "sim_unlock", ![t].v = rt[t].current_voltage]
    /\ UNCHANGED <<rtFrame, levelv, queue>>

\* self.lock.unlock()
SimUnlock(t) ==
    /\ rt[t].pc = "sim_unlock"
    /\ rt' = [rt EXCEPT ![t].pc = "append_t", ![t].lock = "free"]
    /\ UNCHANGED <<rtFrame, levelv, queue>>

\* The finally clause of run(): finished_sig.emit(), and run() returns.
RtFinally(t) ==
    /\ rt[t].pc = "finally"
    /\ rt' = [rt EXCEPT ![t].pc = "done"]
    /\ Emit("finished", t, NoValue)
    /\ UNCHANGED <<rtFrame, levelv>>

RtStep(t) ==
    \/ RtBegin(t)
    \/ RtLoopCheck(t)
    \/ RtMeasureV(t)
    \/ RtMeasureI(t)
    \/ RtRecover(t)
    \/ RtErrCheck(t)
    \/ RtAppendT(t)
    \/ RtAppendV(t)
    \/ RtAppendCEmit(t)
    \/ RtSleep(t)
    \/ SimLock(t)
    \/ SimRead(t)
    \/ SimUnlock(t)
    \/ RtFinally(t)

\* ------------------------------------------------------ settings widgets
\* Representative values of the numeric, list and check-box fields.
FieldVals == {0, 1}
\* Integration times in microseconds (the field's limits are 16 us and 5 s).
TIntValues == {18, 100000, 450000}
SettlingValues == {-1, 1}
PaneKeys == {"VgStart", "VgStop", "VgStep", "VdList",
             "VdStart", "VdStop", "VdStep", "VgList",
             "VStart", "VStop", "VStep"}

\* QComboBox.findText: the first index holding the text, 0 when absent
\* (indices are counted from 1 here; Qt's -1 is 0).
FindText(list, text) ==
    IF \E i \in 1 .. Len(list) : list[i] = text
      THEN CHOOSE i \in 1 .. Len(list) :
             list[i] = text /\ \A j \in 1 .. (i - 1) : list[j] # text
      ELSE 0

\* QComboBox.currentText()
CurrentText(list, i) == IF i \in 1 .. Len(list) THEN list[i] ELSE ""

\* An index outside the items selects nothing.
ValidIndex(i, count) == IF i \in 1 .. count THEN i ELSE 0

\* The two selectors of SweepSettingsWidget as c = [n, g, d, gn, dn]: the
\* length of self.smu_list, the current indices and the item counts of
\* smu_gate and smu_drain.  setCurrentIndex emits currentIndexChanged when
\* the index changes, and the connected slot runs before it returns.
RECURSIVE SetGate(_, _), SetDrain(_, _)
RECURSIVE on_smu_gate_changed(_, _), on_smu_drain_changed(_, _)

SetGate(c, i) ==
    LET j == ValidIndex(i, c.gn) IN
    IF j = c.g THEN c ELSE on_smu_gate_changed([c EXCEPT !.g = j], j)

SetDrain(c, i) ==
    LET j == ValidIndex(i, c.dn) IN
    IF j = c.d THEN c ELSE on_smu_drain_changed([c EXCEPT !.d = j], j)

\* A gate slot that leaves the drain selector alone.
on_smu_gate_changedInert(c, int_smu) == c

on_smu_gate_changed(c, int_smu) ==
    IF int_smu = 1 /\ c.n < 3 THEN SetDrain(c, 2)
    ELSE IF int_smu = 2 /\ c.n < 3 THEN SetDrain(c, 1)
    ELSE c

on_smu_drain_changed(c, int_smu) ==
    IF int_smu = 1 /\ c.n < 3 THEN SetGate(c, 2)
    ELSE IF int_smu = 2 /\ c.n < 3 THEN SetGate(c, 1)
    ELSE c

Selectors(w) ==
    [n |-> Len(w.smu_list), g |-> w.smu_gate, d |-> w.smu_drain,
     gn |-> Len(w.smu_list), dn |-> Len(w.smu_list)]

WithSelectors(w, c) == [w EXCEPT !.smu_gate = c.g, !.smu_drain = c.d]

\* setCurrentText of a combo box that cannot be edited: the index of the
\* text when the box holds it, no change otherwise.
SetGateText(c, list, text) ==
    IF FindText(list, text) # 0 THEN SetGate(c, FindText(list, text)) ELSE c

SetDrainText(c, list, text) ==
    IF FindText(list, text) # 0 THEN SetDrain(c, FindText(list, text)) ELSE c

\* SweepSettingsWidget.update_smu_list: clear() leaves both boxes empty,
\* addItems selects the first item, then the indices 0 and 1 are set.
SweepUpdateSmuList(w, list) ==
    LET n  == Len(list)
        c0 == [n |-> n, g |-> 0, d |-> 0, gn |-> 0, dn |-> 0]
        c1 == SetGate([c0 EXCEPT !.gn = n], 1)
        c2 == SetDrain([c1 EXCEPT !.dn = n], 1)
        c3 == SetGate(c2, 1)
        c4 == SetDrain(c3, 2)
    IN  WithSelectors([w EXCEPT !.smu_list = list], c4)

\* SweepSettingsWidget.load_defaults
SweepLoadDefaults(w, conf) ==
    LET w1 == [w EXCEPT !.t_int = conf.Sweep["tInt"],
                        !.t_settling = conf.Sweep["delay"],
                        !.sweep_type = IF conf.Sweep["pulsed"] THEN 1 ELSE 0]
        c1 == SetGateText(Selectors(w1), w.smu_list, conf.Sweep["gate"])
        c2 == SetDrainText(c1, w.smu_list, conf.Sweep["drain"])
    IN  WithSelectors(w1, c2)

\* SweepSettingsWidget.save_defaults
SweepSaveDefaults(w, conf) ==
    [conf EXCEPT !.Sweep["tInt"] = w.t_int,
                 !.Sweep["delay"] = w.t_settling,
                 !.Sweep["gate"] = CurrentText(w.smu_list, w.smu_gate),
                 !.Sweep["drain"] = CurrentText(w.smu_list, w.smu_drain)]

\* load_defaults of the transfer, output and IV panes; smu_sweep is the
\* index of the IV pane's selector over the same SMU list.
PanesLoadDefaults(p, list, conf) ==
    [k \in DOMAIN p |->
        IF k = "smu_sweep"
          THEN IF FindText(list, conf.Sweep["smu_sweep"]) # 0
                 THEN FindText(list, conf.Sweep["smu_sweep"]) ELSE p[k]
          ELSE conf.Sweep[k]]

\* save_defaults of the transfer, output and IV panes
PanesSaveDefaults(p, list, conf) ==
    [conf EXCEPT !.Sweep =
        [k \in DOMAIN conf.Sweep |->
            IF k = "smu_sweep" THEN CurrentText(list, p["smu_sweep"])
            ELSE IF k \in PaneKeys THEN p[k]
            ELSE conf.Sweep[k]]]

\* IVSweepSettingsWidget.update_smu_list
PanesUpdateSmuList(p, list) == [p EXCEPT !["smu_sweep"] = ValidIndex(1, Len(list))]

\* SMUSettingsWidget.load_defaults; a missing section leaves the tab alone.
TabLoadDefaults(tb, conf) ==
    IF tb.smu_name # Placeholder /\ tb.smu_name \in DOMAIN conf.smu
      THEN LET sec == conf.smu[tb.smu_name] IN
           [tb EXCEPT !.sense_type = IF sec.sense = "SENSE_LOCAL" THEN 0
                                     ELSE IF sec.sense = "SENSE_REMOTE" THEN 1
                                     ELSE @,
                      !.limit_i = sec.limiti, !.limit_v = sec.limitv,
                      !.high_c = sec.highc]
      ELSE tb

\* SMUSettingsWidget.__init__
NewTab(smu_name, conf) ==
    TabLoadDefaults([smu_name |-> smu_name, sense_type |-> 0, limit_i |-> 0,
                     limit_v |-> 0, high_c |-> FALSE], conf)

\* SMUSettingsWidget.save_defaults
TabSection(tb) ==
    [sense |-> IF tb.sense_type = 0 THEN "SENSE_LOCAL" ELSE "SENSE_REMOTE",
     limiti |-> tb.limit_i, limitv |-> tb.limit_v, highc |-> tb.high_c]

RECURSIVE TabsSaveDefaults(_, _)
TabsSaveDefaults(tbs, conf) ==
    IF tbs = <<>> THEN conf
    ELSE LET tb == Head(tbs)
             c1 == IF tb.smu_name = Placeholder THEN conf
                   ELSE [conf EXCEPT !.smu =
                           [s \in DOMAIN conf.smu \cup {tb.smu_name} |->
                              IF s = tb.smu_name THEN TabSection(tb)
                              ELSE conf.smu[s]]]
         IN  TabsSaveDefaults(Tail(tbs), c1)

\* The settings store as the configuration module ships it.
DefaultSection ==
    [sense |-> "SENSE_LOCAL", limiti |-> 0, limitv |-> 0, highc |-> FALSE]

DefaultCONF ==
    [Sweep |-> [k \in PaneKeys \cup {"tInt", "delay", "pulsed", "gate",
                                    "drain", "smu_sweep"} |->
                  CASE k = "tInt" -> 100000
                    [] k = "delay" -> -1
                    [] k = "pulsed" -> FALSE
                    [] k = "gate" -> "smua"
                    [] k = "drain" -> "smub"
                    [] k = "smu_sweep" -> "smua"
                    [] OTHER -> 0],
     smu |-> [s \in {"smua", "smub"} |-> DefaultSection]]

\* The settings the GUI shows.
Shown == [sweep |-> sweep, tabs |-> tabs, panes |-> panes]

\* ------------------------------------------------------------ GUI states
InitialGui ==
    [run |-> FALSE, abort |-> FALSE, start |-> TRUE, stop |-> FALSE,
     smuField |-> TRUE, intervalField |-> TRUE,
     actConnect |-> TRUE, actDisconnect |-> FALSE, actSave |-> FALSE]

_gui_state_busy(g) ==
    [g EXCEPT !.run = FALSE, !.abort = TRUE,
              !.actConnect = FALSE, !.actDisconnect = FALSE]

_gui_state_idle(g) ==
    [g EXCEPT !.run = TRUE, !.abort = FALSE,
              !.actConnect = FALSE, !.actDisconnect = TRUE]

_gui_state_disconnected(g) ==
    [g EXCEPT !.actConnect = TRUE, !.actDisconnect = FALSE,
              !.run = FALSE, !.abort = FALSE,
              !.start = TRUE, !.stop = FALSE]

_reset_realtime_ui(g) ==
    [g EXCEPT !.start = TRUE, !.stop = FALSE,
              !.smuField = TRUE, !.intervalField = TRUE]

SwIds == 1 .. MaxSweeps

\* keithley.busy: the driver sets it for the time of a sweep.
busy == \E s \in SwIds : mt[s].pc = "measure"

\* update_gui_connection; modelOk says whether the read of localnode.model
\* returned.  The result is the new keithley.connected and the new flags.
update_gui_connection(g, conn, modelOk) ==
    IF conn
      THEN IF ~modelOk
             THEN [connected |-> FALSE, gui |-> _gui_state_disconnected(g)]
             ELSE [connected |-> TRUE,
                   gui |-> IF busy THEN _gui_state_busy(g)
                           ELSE _gui_state_idle(g)]
      ELSE [connected |-> FALSE, gui |-> _gui_state_disconnected(g)]

\* _get_smus
_get_smus(conn) == IF conn THEN device ELSE DefaultSmus

\* The UI thread is between two handlers and the application is alive.
UiFree == uiPc = "idle" /\ propagated = "none"

\* An exception leaves the handler: PyQt ends the application.
Propagate(handler) == propagated' = handler

\* ---------------------------------------------- real-time measurement UI
NextThread == CHOOSE t \in RtIds : rt[t].pc = "unborn" /\
                                   \A u \in RtIds : u < t => rt[u].pc # "unborn"

\* What on_start_realtime_clicked does once the mode is known and, in
\* real-device mode, the voltage is applied: the thread is created and
\* started and the controls are switched.
StartThread(simulation_mode, smuOk) ==
    /\ \E t \in 1 .. limits.threads : rt[t].pc = "unborn"
    /\ realtime_thread' = NextThread
    /\ rt' = [rt EXCEPT ![NextThread] =
                [NewThread(simulation_mode, smuOk) EXCEPT
                   !.smu_name = CurrentText(smu_list, realtime_smu)]]
    /\ gui' = [gui EXCEPT !.start = FALSE, !.stop = TRUE,
                          !.smuField = FALSE, !.intervalField = FALSE]
    /\ vcConnected' = TRUE

\* A handler whose except clause shows the dialog and does not return.
on_start_realtime_clickedNoReturn ==
    /\ UiFree /\ gui.start
    /\ LET smu_name == CurrentText(smu_list, realtime_smu)
           simulation_mode == ~connected
       IN  IF smu_name = Placeholder
             THEN /\ msg' = "parameter error"
                  /\ UNCHANGED <<realtime_thread, rt, gui, vcConnected, levelv>>
             ELSE IF ~simulation_mode
               THEN \/ /\ msg' = "set error"
                       /\ \E smuOk \in BOOLEAN : StartThread(FALSE, smuOk)
                       /\ UNCHANGED levelv
                    \/ /\ levelv' = realtime_voltage
                       /\ msg' = "none"
                       /\ \E smuOk \in BOOLEAN : StartThread(FALSE, smuOk)
               ELSE \/ /\ msg' = "simulation mode"
                       /\ UNCHANGED <<realtime_thread, rt, gui, vcConnected,
                                      levelv>>
                    \/ /\ msg' = "simulation mode"
                       /\ StartThread(TRUE, FALSE)
                       /\ UNCHANGED levelv
    /\ UNCHANGED <<connected, instrVars, abort_event, smu_list, realtime_smu,
                   realtime_voltage, tab, sweepVars, queue, uiPc, uiArg,
                   propagated, simIO, settingVars>>

\* on_start_realtime_clicked: the placeholder is refused; in real-device
\* mode the voltage is applied, in simulation mode the dialog is shown;
\* then the thread is created and started.

on_start_realtime_clicked ==
    /\ UiFree /\ gui.start
    /\ LET smu_name == CurrentText(smu_list, realtime_smu)
           simulation_mode == ~connected
       IN  IF smu_name = Placeholder
             THEN /\ msg' = "parameter error"
                  /\ UNCHANGED <<realtime_thread, rt, gui, vcConnected, levelv>>
             ELSE IF ~simulation_mode
               THEN \/ /\ msg' = "set error"       \* apply_voltage raises
                       /\ UNCHANGED <<realtime_thread, rt, gui, vcConnected,
                                      levelv>>
                    \/ /\ levelv' = realtime_voltage
                       /\ msg' = "none"
                       /\ \E smuOk \in BOOLEAN : StartThread(FALSE, smuOk)
               ELSE \/ /\ msg' = "simulation mode"  \* Cancel
                       /\ UNCHANGED <<realtime_thread, rt, gui, vcConnected,
                                      levelv>>
                    \/ /\ msg' = "simulation mode"  \* Ok
                       /\ StartThread(TRUE, FALSE)
                       /\ UNCHANGED levelv
    /\ UNCHANGED <<connected, instrVars, abort_event, smu_list, realtime_smu,
                   realtime_voltage, tab, sweepVars, queue, uiPc, uiArg,
                   propagated, simIO, settingVars>>

\* RealtimeMeasureThread.stop
stop(r) == [r EXCEPT !.running = FALSE]

on_stop_realtime_clicked ==
    /\ UiFree /\ gui.stop
    /\ IF realtime_thread # 0 /\ isRunning(realtime_thread)
         THEN rt' = [rt EXCEPT ![realtime_thread] = stop(rt[realtime_thread])]
         ELSE UNCHANGED rt
    /\ msg' = "none"
    /\ UNCHANGED <<connected, instrVars, levelv, abort_event, smu_list,
                   realtime_smu, realtime_voltage, vcConnected, tab, gui,
                   realtime_thread, sweepVars, queue, uiPc, uiArg,
                   propagated, simIO, settingVars>>

\* on_voltage_changed, entered from setValue when the value changes and
\* the slot is connected: it starts a driver call or the locked write.
on_voltage_changed(new_voltage) ==
    IF vcConnected /\ realtime_thread # 0 /\ isRunning(realtime_thread)
      THEN LET simulation_mode == rt[realtime_thread].simulation_mode IN
           IF ~simulation_mode /\ connected
             THEN IF CurrentText(smu_list, realtime_smu) # Placeholder
                    THEN uiPc' = "apply_voltage" /\ uiArg' = new_voltage
                    ELSE UNCHANGED <<uiPc, uiArg>>
           ELSE IF simulation_mode
             THEN uiPc' = "usv_lock" /\ uiArg' = new_voltage
           ELSE UNCHANGED <<uiPc, uiArg>>
      ELSE UNCHANGED <<uiPc, uiArg>>

voltFrame == <<connected, instrVars, levelv, abort_event, smu_list,
               realtime_smu, vcConnected, tab, gui, realtime_thread, rt,
               sweepVars, queue, propagated, simIO, settingVars>>

SetVoltage(value) ==
    /\ UiFree
    /\ value \in Volts /\ value # realtime_voltage
    /\ realtime_voltage' = value
    /\ on_voltage_changed(value)
    /\ msg' = "none"
    /\ UNCHANGED voltFrame

on_voltage_up_clicked == SetVoltage(realtime_voltage + 1)
on_voltage_down_clicked == SetVoltage(realtime_voltage - 1)
on_voltage_zero_clicked == SetVoltage(0)

\* keithley.apply_voltage of on_voltage_changed returns or raises; the
\* exception is caught.
ApplyVoltageReturns ==
    /\ uiPc = "apply_voltage"
    /\ \/ levelv' = uiArg
       \/ UNCHANGED levelv
    /\ uiPc' = "idle" /\ uiArg' = 0
    /\ simIO' = (simIO \/ rt[realtime_thread].simulation_mode)
    /\ UNCHANGED <<connected, instrVars, abort_event, smu_list, realtime_smu,
                   realtime_voltage, vcConnected, tab, gui, realtime_thread,
                   rt, sweepVars, queue, msg, propagated, settingVars>>

usvFrame == <<connected, instrVars, levelv, abort_event, smu_list,
              realtime_smu, realtime_voltage, vcConnected, tab, gui,
              realtime_thread, sweepVars, queue, msg, propagated, simIO,
              settingVars>>

\* update_simulation_voltage: self.lock.lock() blocks while the mutex is held
UsvLock ==
    /\ uiPc = "usv_lock"
    /\ rt[realtime_thread].lock = "free"
    /\ rt' = [rt EXCEPT ![realtime_thread].lock = "ui"]
    /\ uiPc' = "usv_write"
    /\ UNCHANGED <<usvFrame, uiArg>>

\* self.current_voltage = new_voltage
UsvWrite ==
    /\ uiPc = "usv_write"
    /\ rt' = [rt EXCEPT ![realtime_thread].current_voltage = uiArg]
    /\ uiPc' = "usv_unlock"
    /\ UNCHANGED <<usvFrame, uiArg>>

\* self.lock.unlock()
UsvUnlock ==
    /\ uiPc = "usv_unlock"
    /\ rt' = [rt EXCEPT ![realtime_thread].lock = "free"]
    /\ uiPc' = "idle" /\ uiArg' = 0
    /\ UNCHANGED usvFrame

\* The user picks another entry of the realtime_smu box.
SelectRealtimeSmu(i) ==
    /\ UiFree /\ gui.smuField
    /\ i \in 1 .. Len(smu_list) /\ i # realtime_smu
    /\ realtime_smu' = i
    /\ msg' = "none"
    /\ UNCHANGED <<connected, instrVars, levelv, abort_event, smu_list,
                   realtime_voltage, vcConnected, tab, gui, realtime_thread,
                   rt, sweepVars, queue, uiPc, uiArg, propagated, simIO,
                   settingVars>>

sigFrame == <<instrVars, abort_event, smu_list, realtime_smu,
              realtime_voltage, vcConnected, tab, realtime_thread, rt,
              sweepVars, propagated, settingVars>>

\* on_realtime_data: the labels take the tuple, and with more than one
\* point the lists of the dict are plotted.
on_realtime_data ==
    /\ UiFree /\ queue # <<>> /\ Head(queue).sig = "data"
    /\ queue' = Tail(queue)
    /\ IF Len(rt[Head(queue).src].time_data) > 1
         THEN uiPc' = "plot" /\ uiArg' = Head(queue).src
         ELSE UNCHANGED <<uiPc, uiArg>>
    /\ msg' = "none"
    /\ UNCHANGED <<sigFrame, connected, levelv, gui, simIO>>

\* canvas.plot_xy(data["time"], data["current"], ...) returns or raises;
\* the exception is caught.
PlotReturns ==
    /\ uiPc = "plot"
    /\ uiPc' = "idle" /\ uiArg' = 0
    /\ UNCHANGED <<sigFrame, connected, levelv, gui, simIO, queue, msg>>

on_realtime_error ==
    /\ UiFree /\ queue # <<>> /\ Head(queue).sig = "error"
    /\ queue' = Tail(queue)
    /\ msg' = "realtime error"
    /\ gui' = _reset_realtime_ui(gui)
    /\ UNCHANGED <<sigFrame, connected, levelv, uiPc, uiArg, simIO>>

\* on_realtime_finished: the controls are reset and, when the thread
\* self.realtime_thread is a real-device one and the instrument is
\* connected, the output of the selected SMU is switched off.
OutputOffDue ==
    /\ realtime_thread # 0
    /\ ~rt[realtime_thread].simulation_mode
    /\ connected
    /\ CurrentText(smu_list, realtime_smu) # Placeholder

on_realtime_finished ==
    /\ UiFree /\ queue # <<>> /\ Head(queue).sig = "finished"
    /\ queue' = Tail(queue)
    /\ msg' = "none"
    /\ gui' = _reset_realtime_ui(gui)
    /\ IF OutputOffDue
         THEN /\ \/ levelv' = 0
                 \/ UNCHANGED levelv
              /\ simIO' = (simIO \/ rt[Head(queue).src].simulation_mode)
         ELSE UNCHANGED <<levelv, simIO>>
    /\ UNCHANGED <<sigFrame, connected, uiPc, uiArg>>

\* --------------------------------------------------- connection handlers
NoSnap == [sweep |-> <<>>, tabs |-> <<>>, panes |-> <<>>]

\* KeithleyGuiApp.update_smu_list for the list _get_smus returns: the
\* realtime_smu box keeps its text when the new list holds it, the SMU
\* tabs are built anew and the selectors of the panes are reset.
AppUpdateSmuList(list) ==
    /\ smu_list' = list
    /\ realtime_smu' =
         IF FindText(list, CurrentText(smu_list, realtime_smu)) # 0
           THEN FindText(list, CurrentText(smu_list, realtime_smu))
           ELSE ValidIndex(1, Len(list))
    /\ tabs' = [i \in 1 .. Len(list) |-> NewTab(list[i], CONF)]
    /\ panes' = PanesUpdateSmuList(panes, list)
    /\ sweep' = SweepUpdateSmuList(sweep, list)
    /\ snap' = NoSnap

connFrame == <<instrVars, levelv, abort_event, realtime_voltage, vcConnected,
               tab, realtime_thread, rt, sweepVars, queue, uiPc, uiArg,
               propagated, simIO, CONF, nEdits>>

\* on_connect_clicked; keithley.connect() connects, fails or raises.
on_connect_clicked ==
    /\ UiFree /\ gui.actConnect
    /\ \/ \E conn \in BOOLEAN, modelOk \in BOOLEAN :
            LET u == update_gui_connection(gui, conn, modelOk) IN
            /\ AppUpdateSmuList(_get_smus(conn))
            /\ connected' = u.connected
            /\ gui' = u.gui
            /\ msg' = IF u.connected THEN "none" ELSE "connection error"
       \/ /\ connected' = FALSE
          /\ gui' = update_gui_connection(gui, FALSE, FALSE).gui
          /\ msg' = "connection error"
          /\ UNCHANGED <<smu_list, realtime_smu, tabs, panes, sweep, snap>>
    /\ UNCHANGED connFrame

\* on_disconnect_clicked; an exception of keithley.disconnect() is not
\* caught.
on_disconnect_clicked ==
    /\ UiFree /\ gui.actDisconnect
    /\ \/ /\ connected' = FALSE
          /\ gui' = update_gui_connection(gui, FALSE, FALSE).gui
          /\ UNCHANGED propagated
       \/ /\ Propagate("on_disconnect_clicked")
          /\ UNCHANGED <<connected, gui>>
    /\ msg' = "none"
    /\ UNCHANGED <<instrVars, levelv, abort_event, smu_list, realtime_smu,
                   realtime_voltage, vcConnected, tab, realtime_thread, rt,
                   sweepVars, queue, uiPc, uiArg, simIO, settingVars>>

\* The connection_status_update timer fires: update_gui_connection.
TimerTick ==
    /\ UiFree
    /\ \E modelOk \in BOOLEAN :
         LET u == update_gui_connection(gui, connected, modelOk) IN
         /\ connected' = u.connected
         /\ gui' = u.gui
    /\ UNCHANGED <<instrVars, levelv, abort_event, smu_list, realtime_smu,
                   realtime_voltage, vcConnected, tab, realtime_thread, rt,
                   sweepVars, queue, uiPc, uiArg, msg, propagated, simIO,
                   settingVars>>

\* exit_; an exception of keithley.disconnect() is not caught.
exit_ ==
    /\ UiFree
    /\ \/ /\ connected' = FALSE
          /\ uiPc' = "exited"
          /\ UNCHANGED propagated
       \/ /\ Propagate("exit_")
          /\ UNCHANGED <<connected, uiPc>>
    /\ UNCHANGED <<instrVars, levelv, abort_event, smu_list, realtime_smu,
                   realtime_voltage, vcConnected, tab, gui, realtime_thread,
                   rt, sweepVars, queue, uiArg, msg, simIO, settingVars>>

\* ------------------------------------------------------- MeasureThread
\* raised_at and aborted are histories of the run: the step whose driver
\* call raised, and whether on_abort_clicked has run since the thread was
\* started and before its signal was handled.
NewSweep(sweep_type) ==
    [pc |-> "run", sweep_type |-> sweep_type, raised_at |-> "none",
     aborted |-> FALSE]
UnbornSweep == [NewSweep("none") EXCEPT !.pc = "unborn"]

mtFrame == <<connected, instrVars, smu_list, realtime_smu,
             realtime_voltage, vcConnected, tab, gui, realtime_thread, rt,
             measureThread, uiPc, uiArg, msg, propagated, simIO,
             settingVars>>

\* An except clause that reports nothing.
MtRaiseSilent(s) ==
    /\ mt' = [mt EXCEPT ![s].pc = "done", ![s].raised_at = mt[s].pc]
    /\ UNCHANGED queue

\* `except Exception as exc: self.error_sig.emit(exc)`, and run() returns.
MtRaise(s) ==
    /\ mt' = [mt EXCEPT ![s].pc = "done", ![s].raised_at = mt[s].pc]
    /\ Emit("sweep_error", s, NoValue)

\* run() calls the driver's sweep; for an IV sweep the sweep list is
\* computed first, which raises for a step of zero.  The driver owns the
\* abort event: its sweep may clear the event when it begins, or leave it.
MtBegin(s) ==
    /\ mt[s].pc = "run"
    /\ \/ /\ mt' = [mt EXCEPT ![s].pc = "measure"]
          /\ abort_event' \in {abort_event, FALSE}
          /\ UNCHANGED queue
       \/ /\ mt[s].sweep_type = "iv"
          /\ MtRaise(s)
          /\ UNCHANGED abort_event
    /\ UNCHANGED <<mtFrame, levelv>>

\* transfer_measurement, output_measurement or voltage_sweep_single_smu
\* returns or raises.
MtMeasure(s) ==
    /\ mt[s].pc = "measure"
    /\ \/ /\ mt' = [mt EXCEPT ![s].pc = "beep"]
          /\ UNCHANGED queue
       \/ MtRaise(s)
    /\ UNCHANGED <<mtFrame, levelv, abort_event>>

\* self.keithley.beeper.beep(0.3, 2400) returns or raises.
MtBeep(s) ==
    /\ mt[s].pc = "beep"
    /\ \/ /\ mt' = [mt EXCEPT ![s].pc = "reset"]
          /\ UNCHANGED queue
       \/ MtRaise(s)
    /\ UNCHANGED <<mtFrame, levelv, abort_event>>

\* self.keithley.reset() returns, and finished_sig is emitted, or raises.
MtReset(s) ==
    /\ mt[s].pc = "reset"
    /\ \/ /\ mt' = [mt EXCEPT ![s].pc = "done"]
          /\ Emit("sweep_done", s, NoValue)
          /\ levelv' = 0
       \/ /\ MtRaise(s)
          /\ UNCHANGED levelv
    /\ UNCHANGED <<mtFrame, abort_event>>

MtStep(s) ==
    \/ MtBegin(s)
    \/ MtMeasure(s)
    \/ MtBeep(s)
    \/ MtReset(s)

\* ------------------------------------------------------- sweep handlers
\* The range test without its upper limit.
ValidTIntNoUpper(tInt, freq) == 1000 < tInt * freq

\* `not 0.001 / freq < params["tInt"] < 25.0 / freq`, the integration
\* time in microseconds.
ValidTInt(tInt, freq) == 1000 < tInt * freq /\ tInt * freq < 25000000

\* getattr(self.keithley, name) finds an SMU of the connected instrument.
DriverHas(name) == name # Placeholder /\ \E i \in 1 .. Len(device) : device[i] = name

SweepTypeOfTab(i) ==
    CASE i = 0 -> "transfer" [] i = 1 -> "output" [] i = 2 -> "iv"
      [] OTHER -> "none"

\* The attribute reads of on_sweep_clicked that raise for certain: an SMU
\* tab, the sweep SMU of an IV sweep, the gate or the drain SMU names no
\* SMU of the instrument.
SweepNamesOk ==
    /\ \A i \in 1 .. Len(tabs) : DriverHas(tabs[i].smu_name)
    /\ tab = 2 => DriverHas(CurrentText(smu_list, panes["smu_sweep"]))
    /\ tab \in {0, 1, 2} =>
         /\ DriverHas(CurrentText(sweep.smu_list, sweep.smu_gate))
         /\ DriverHas(CurrentText(sweep.smu_list, sweep.smu_drain))

NextSweep == CHOOSE s \in SwIds : mt[s].pc = "unborn" /\
                                  \A u \in SwIds : u < s => mt[u].pc # "unborn"

\* The end of on_sweep_clicked: the thread is created, the GUI goes busy
\* and the thread is started.
StartSweep ==
    /\ \E s \in 1 .. limits.sweeps : mt[s].pc = "unborn"
    /\ measureThread' = NextSweep
    /\ mt' = [mt EXCEPT ![NextSweep] = NewSweep(SweepTypeOfTab(tab))]
    /\ gui' = _gui_state_busy(gui)

sweepClickFrame == <<connected, instrVars, levelv, abort_event, smu_list,
                     realtime_smu, realtime_voltage, vcConnected, tab,
                     realtime_thread, rt, queue, uiPc, uiArg, simIO,
                     settingVars>>

on_sweep_clicked ==
    /\ UiFree /\ gui.run
    /\ IF busy
         THEN /\ msg' = "Keithley Busy"
              /\ UNCHANGED <<measureThread, mt, gui, propagated>>
         ELSE \/ /\ Propagate("on_sweep_clicked")   \* a driver call raises
                 /\ msg' = "none"
                 /\ UNCHANGED <<measureThread, mt, gui>>
              \/ /\ SweepNamesOk
                 /\ UNCHANGED propagated
                 /\ IF tab \notin {0, 1, 2}
                      THEN /\ msg' = "none"
                           /\ UNCHANGED <<measureThread, mt, gui>>
                      ELSE IF ~ValidTInt(sweep.t_int, linefreq)
                        THEN /\ msg' = "Parameter Error"
                             /\ UNCHANGED <<measureThread, mt, gui>>
                        ELSE /\ msg' = "none"
                             /\ StartSweep
    /\ UNCHANGED sweepClickFrame

doneFrame == <<connected, instrVars, levelv, abort_event, smu_list,
               realtime_smu, realtime_voltage, vcConnected, tab,
               realtime_thread, rt, sweepVars, uiPc, uiArg, simIO,
               settingVars>>

\* on_measure_done: idle state, the data can be saved, and unless the
\* abort event is set on_save_clicked is called, whose save may raise.
on_measure_done ==
    /\ UiFree /\ queue # <<>> /\ Head(queue).sig = "sweep_done"
    /\ queue' = Tail(queue)
    /\ gui' = [_gui_state_idle(gui) EXCEPT !.actSave = TRUE]
    /\ IF ~abort_event
         THEN /\ msg' = "save dialog"
              /\ \/ UNCHANGED propagated
                 \/ Propagate("on_save_clicked")
         ELSE /\ msg' = "none"
              /\ UNCHANGED propagated
    /\ UNCHANGED doneFrame

on_measure_error ==
    /\ UiFree /\ queue # <<>> /\ Head(queue).sig = "sweep_error"
    /\ queue' = Tail(queue)
    /\ gui' = _gui_state_idle(gui)
    /\ msg' = "Sweep Error"
    /\ UNCHANGED <<doneFrame, propagated>>

\* The sweep thread s has been started and its signal is not handled yet.
SweepPending(s) ==
    \/ mt[s].pc \notin {"unborn", "done"}
    \/ \E i \in 1 .. Len(queue) :
          queue[i].src = s /\ queue[i].sig \in {"sweep_done", "sweep_error"}

\* on_abort_clicked: the event is set, then every SMU of the list is
\* aborted and the instrument reset; no exception is caught.
on_abort_clicked ==
    /\ UiFree /\ gui.abort
    /\ abort_event' = TRUE
    /\ mt' = [s \in SwIds |->
                IF SweepPending(s) THEN [mt[s] EXCEPT !.aborted = TRUE]
                ELSE mt[s]]
    /\ \/ /\ \A i \in 1 .. Len(smu_list) : DriverHas(smu_list[i])
          /\ levelv' = 0
          /\ UNCHANGED propagated
       \/ /\ Propagate("on_abort_clicked")
          /\ UNCHANGED levelv
    /\ msg' = "none"
    /\ UNCHANGED <<connected, instrVars, smu_list, realtime_smu,
                   realtime_voltage, vcConnected, tab, gui, realtime_thread,
                   rt, measureThread, queue, uiPc, uiArg, simIO,
                   settingVars>>

fileFrame == <<connected, instrVars, levelv, abort_event, smu_list,
               realtime_smu, realtime_voltage, vcConnected, tab,
               realtime_thread, rt, sweepVars, queue, uiPc, uiArg, simIO,
               settingVars>>

\* on_save_clicked from the menu: the dialog is cancelled, the table is
\* saved, or sweep_data.save raises.
on_save_clicked ==
    /\ UiFree /\ gui.actSave
    /\ msg' = "save dialog"
    /\ \/ UNCHANGED propagated
       \/ Propagate("on_save_clicked")
    /\ UNCHANGED <<fileFrame, gui>>

\* on_load_clicked: no file is chosen, the table is loaded and plotted, or
\* FETResultTable.load raises.
on_load_clicked ==
    /\ UiFree
    /\ msg' = "load dialog"
    /\ \/ UNCHANGED <<gui, propagated>>
       \/ /\ gui' = [gui EXCEPT !.actSave = TRUE]
          /\ UNCHANGED propagated
       \/ /\ Propagate("on_load_clicked")
          /\ UNCHANGED gui
    /\ UNCHANGED fileFrame

\* The user shows another page of tabWidgetSweeps (3: real-time).
SelectTab(i) ==
    /\ UiFree
    /\ i \in 0 .. 3 /\ i # tab
    /\ tab' = i
    /\ msg' = "none"
    /\ UNCHANGED <<connected, instrVars, levelv, abort_event, smu_list,
                   realtime_smu, realtime_voltage, vcConnected, gui,
                   realtime_thread, rt, sweepVars, queue, uiPc, uiArg,
                   propagated, simIO, settingVars>>

\* ------------------------------------------------ settings: user edits
editFrame == <<connected, instrVars, levelv, abort_event, smu_list,
               realtime_smu, realtime_voltage, vcConnected, tab, gui,
               realtime_thread, rt, sweepVars, queue, uiPc, uiArg, msg,
               propagated, simIO>>

Edit == UiFree /\ nEdits < MaxEdits /\ nEdits' = nEdits + 1

EditTInt(v) ==
    /\ UiFree /\ v \in TIntValues /\ v # sweep.t_int
    /\ sweep' = [sweep EXCEPT !.t_int = v]
    /\ UNCHANGED <<editFrame, tabs, panes, CONF, snap, nEdits>>

EditSettling(v) ==
    /\ Edit /\ v \in SettlingValues /\ v # sweep.t_settling
    /\ sweep' = [sweep EXCEPT !.t_settling = v]
    /\ UNCHANGED <<editFrame, tabs, panes, CONF, snap>>

EditSweepType(v) ==
    /\ Edit /\ v \in {0, 1} /\ v # sweep.sweep_type
    /\ sweep' = [sweep EXCEPT !.sweep_type = v]
    /\ UNCHANGED <<editFrame, tabs, panes, CONF, snap>>

EditPane(k, v) ==
    /\ Edit /\ k \in PaneKeys /\ v \in FieldVals /\ v # panes[k]
    /\ panes' = [panes EXCEPT ![k] = v]
    /\ UNCHANGED <<editFrame, sweep, tabs, CONF, snap>>

EditSmuSweep(i) ==
    /\ Edit /\ i \in 1 .. Len(smu_list) /\ i # panes["smu_sweep"]
    /\ panes' = [panes EXCEPT !["smu_sweep"] = i]
    /\ UNCHANGED <<editFrame, sweep, tabs, CONF, snap>>

TabFields == {"sense_type", "limit_i", "limit_v", "high_c"}

EditTab(i, f, v) ==
    /\ Edit /\ i \in 1 .. Len(tabs) /\ f \in TabFields /\ v \in FieldVals
    /\ LET new == CASE f = "sense_type" -> [tabs[i] EXCEPT !.sense_type = v]
                    [] f = "limit_i" -> [tabs[i] EXCEPT !.limit_i = v]
                    [] f = "limit_v" -> [tabs[i] EXCEPT !.limit_v = v]
                    [] OTHER -> [tabs[i] EXCEPT !.high_c = (v = 1)]
       IN  /\ new # tabs[i]
           /\ tabs' = [tabs EXCEPT ![i] = new]
    /\ UNCHANGED <<editFrame, sweep, panes, CONF, snap>>

\* The user picks another gate or drain SMU; the slots run.
SelectGate(i) ==
    /\ UiFree /\ i \in 1 .. Len(sweep.smu_list) /\ i # sweep.smu_gate
    /\ sweep' = WithSelectors(sweep, SetGate(Selectors(sweep), i))
    /\ UNCHANGED <<editFrame, tabs, panes, CONF, snap, nEdits>>

SelectDrain(i) ==
    /\ UiFree /\ i \in 1 .. Len(sweep.smu_list) /\ i # sweep.smu_drain
    /\ sweep' = WithSelectors(sweep, SetDrain(Selectors(sweep), i))
    /\ UNCHANGED <<editFrame, tabs, panes, CONF, snap, nEdits>>

\* on_save_default
on_save_default ==
    /\ UiFree
    /\ CONF' = TabsSaveDefaults(tabs,
                 SweepSaveDefaults(sweep,
                   PanesSaveDefaults(panes, smu_list, CONF)))
    /\ snap' = Shown
    /\ UNCHANGED <<editFrame, sweep, tabs, panes, nEdits>>

\* on_load_default
on_load_default ==
    /\ UiFree
    /\ panes' = PanesLoadDefaults(panes, smu_list, CONF)
    /\ sweep' = SweepLoadDefaults(sweep, CONF)
    /\ tabs' = [i \in 1 .. Len(tabs) |-> TabLoadDefaults(tabs[i], CONF)]
    /\ UNCHANGED <<editFrame, CONF, snap, nEdits>>

\* ------------------------------------------------------------ the system
\* KeithleyGuiApp.__init__ without a keithley argument: not connected,
\* the default SMU list, the defaults loaded, the disconnected state.
FullSession == [threads |-> MaxThreads, sweeps |-> MaxSweeps,
                samples |-> MaxSamples, failed |-> MaxFailed]

InitGui ==
    /\ connected = FALSE
    /\ device \in DeviceSmus
    /\ linefreq \in {50, 60}
    /\ levelv = 0
    /\ abort_event = FALSE
    /\ smu_list = DefaultSmus
    /\ realtime_smu = 1
    /\ realtime_voltage = 0
    /\ vcConnected = FALSE
    /\ tab = 0
    /\ gui = _gui_state_disconnected(InitialGui)
    /\ realtime_thread = 0
    /\ rt = [t \in RtIds |-> Unborn]
    /\ measureThread = 0
    /\ mt = [s \in SwIds |-> UnbornSweep]
    /\ queue = <<>>
    /\ uiPc = "idle" /\ uiArg = 0
    /\ msg = "none"
    /\ propagated = "none"
    /\ simIO = FALSE
    /\ sweep = SweepLoadDefaults(
                 [smu_list |-> DefaultSmus, t_int |-> 100000,
                  t_settling |-> -1, sweep_type |-> 0,
                  smu_gate |-> 1, smu_drain |-> 2], DefaultCONF)
    /\ tabs = [i \in 1 .. Len(DefaultSmus) |-> NewTab(DefaultSmus[i], DefaultCONF)]
    /\ panes = PanesLoadDefaults([k \in PaneKeys \cup {"smu_sweep"} |->
                                    IF k = "smu_sweep" THEN 1 ELSE 0],
                                 DefaultSmus, DefaultCONF)
    /\ CONF = DefaultCONF
    /\ snap = NoSnap
    /\ nEdits = 0

Init == InitGui /\ limits = FullSession

Next ==
    \/ \E t \in RtIds : RtStep(t)
    \/ \E s \in SwIds : MtStep(s)
    \/ on_start_realtime_clicked
    \/ on_stop_realtime_clicked
    \/ on_voltage_up_clicked
    \/ on_voltage_down_clicked
    \/ on_voltage_zero_clicked
    \/ ApplyVoltageReturns
    \/ UsvLock
    \/ UsvWrite
    \/ UsvUnlock
    \/ \E i \in 1 .. 3 : SelectRealtimeSmu(i)
    \/ on_realtime_data
    \/ PlotReturns
    \/ on_realtime_error
    \/ on_realtime_finished
    \/ on_connect_clicked
    \/ on_disconnect_clicked
    \/ TimerTick
    \/ exit_
    \/ on_sweep_clicked
    \/ on_measure_done
    \/ on_measure_error
    \/ on_abort_clicked
    \/ on_save_clicked
    \/ on_load_clicked
    \/ \E i \in 0 .. 3 : SelectTab(i)
    \/ \E v \in TIntValues : EditTInt(v)

Spec == Init /\ [][Next]_vars

\* The real-time measurement with the connection handlers and the timer.
NextRT ==
    \/ \E t \in RtIds : RtStep(t)
    \/ on_start_realtime_clicked
    \/ on_stop_realtime_clicked
    \/ on_voltage_up_clicked
    \/ on_voltage_down_clicked
    \/ on_voltage_zero_clicked
    \/ ApplyVoltageReturns
    \/ UsvLock
    \/ UsvWrite
    \/ UsvUnlock
    \/ \E i \in 1 .. 3 : SelectRealtimeSmu(i)
    \/ on_realtime_data
    \/ PlotReturns
    \/ on_realtime_error
    \/ on_realtime_finished
    \/ on_connect_clicked
    \/ on_disconnect_clicked
    \/ TimerTick

\* One real-time thread object, a 50 Hz instrument with two SMU entries.
InitRT1 ==
    /\ InitGui /\ linefreq = 50 /\ Len(device) = 2
    /\ limits = [FullSession EXCEPT !.threads = 1, !.sweeps = 0, !.failed = 0]

SpecRT1 == InitRT1 /\ [][NextRT]_vars

\* Sessions with a second real-time thread object: a thread takes one
\* sample and the voltage setpoint is left alone.
NextRT2 ==
    \/ \E t \in RtIds : RtStep(t)
    \/ on_start_realtime_clicked
    \/ on_stop_realtime_clicked
    \/ on_realtime_data
    \/ on_realtime_error
    \/ on_realtime_finished
    \/ on_connect_clicked
    \/ TimerTick

InitRT2 ==
    /\ InitGui /\ linefreq = 50 /\ Len(device) = 2
    /\ limits = [FullSession EXCEPT !.samples = 1, !.sweeps = 0, !.failed = 0]

SpecRT2 == InitRT2 /\ [][NextRT2]_vars

\* The sweep with the connection handlers, the timer and the file menu.
NextSweepGui ==
    \/ \E s \in SwIds : MtStep(s)
    \/ on_sweep_clicked
    \/ on_measure_done
    \/ on_measure_error
    \/ on_abort_clicked
    \/ on_save_clicked
    \/ on_load_clicked
    \/ on_connect_clicked
    \/ on_disconnect_clicked
    \/ TimerTick
    \/ exit_
    \/ \E i \in 0 .. 3 : SelectTab(i)
    \/ \E v \in TIntValues : EditTInt(v)

\* One sweep thread object, an instrument with the SMUs smua and smub.
InitSweep1 ==
    /\ InitGui /\ device = <<"smua", "smub">>
    /\ limits = [FullSession EXCEPT !.threads = 0, !.sweeps = 1]

SpecSweep1 == InitSweep1 /\ [][NextSweepGui]_vars

\* The gate and drain selectors, the defaults and the SMU list of the
\* instrument that is connected.
NextSelectors ==
    \/ \E i \in 1 .. 3 : SelectGate(i)
    \/ \E i \in 1 .. 3 : SelectDrain(i)
    \/ on_save_default
    \/ on_load_default
    \/ on_connect_clicked
    \/ on_disconnect_clicked

SpecSelectors == Init /\ [][NextSelectors]_vars

\* The settings widgets: edits of the fields and the defaults.
NextSettings ==
    \/ \E v \in TIntValues : EditTInt(v)
    \/ \E v \in SettlingValues : EditSettling(v)
    \/ \E v \in {0, 1} : EditSweepType(v)
    \/ \E k \in PaneKeys, v \in FieldVals : EditPane(k, v)
    \/ \E i \in 1 .. 3 : EditSmuSweep(i)
    \/ \E i \in 1 .. 3, f \in TabFields, v \in FieldVals : EditTab(i, f, v)
    \/ \E i \in 1 .. 3 : SelectGate(i)
    \/ \E i \in 1 .. 3 : SelectDrain(i)
    \/ on_save_default
    \/ on_load_default

InitSettings == Init /\ linefreq = 50 /\ device = <<"smua", "smub">>

SpecSettings == InitSettings /\ [][NextSettings]_vars

\* One real-device or simulation run with its failed reads counted: the
\* thread, Start and Stop, the handlers of its signals and Connect.
NextRetry ==
    \/ \E t \in RtIds : RtStep(t)
    \/ on_start_realtime_clicked
    \/ on_stop_realtime_clicked
    \/ on_realtime_data
    \/ PlotReturns
    \/ on_realtime_error
    \/ on_realtime_finished
    \/ on_connect_clicked

InitRetry ==
    /\ InitGui /\ linefreq = 50 /\ device = <<"smua", "smub">>
    /\ limits = [FullSession EXCEPT !.threads = 1, !.sweeps = 0]

SpecRetry == InitRetry /\ [][NextRetry]_vars

\* The sweep and the real-time measurement side by side: one thread of
\* each kind, their buttons, the handlers of their signals and Connect.
NextBoth ==
    \/ \E t \in RtIds : RtStep(t)
    \/ \E s \in SwIds : MtStep(s)
    \/ on_start_realtime_clicked
    \/ on_stop_realtime_clicked
    \/ on_realtime_data
    \/ on_realtime_error
    \/ on_realtime_finished
    \/ on_sweep_clicked
    \/ on_measure_done
    \/ on_measure_error
    \/ on_abort_clicked
    \/ on_connect_clicked

InitBoth ==
    /\ InitGui /\ linefreq = 50 /\ device = <<"smua", "smub">>
    /\ limits = [FullSession EXCEPT !.threads = 1, !.sweeps = 1,
                                    !.samples = 1, !.failed = 0]

SpecBoth == InitBoth /\ [][NextBoth]_vars

\* Two sweep thread objects: the Run and Abort buttons, the handlers of
\* the sweep signals, Connect and the timer.
NextSweep2 ==
    \/ \E s \in SwIds : MtStep(s)
    \/ on_sweep_clicked
    \/ on_measure_done
    \/ on_measure_error
    \/ on_abort_clicked
    \/ on_connect_clicked
    \/ TimerTick

InitSweep2 ==
    /\ InitGui /\ linefreq = 50 /\ device = <<"smua", "smub">>
    /\ limits = [FullSession EXCEPT !.threads = 0, !.failed = 0]

SpecSweep2 == InitSweep2 /\ [][NextSweep2]_vars

\* The real-time measurement under fair scheduling: every driver call and
\* sleep of a thread returns, the UI thread finishes update_simulation_voltage,
\* and a mutex that is free again and again is obtained.
FairRT ==
    /\ \A t \in RtIds : WF_vars(RtStep(t)) /\ SF_vars(SimLock(t))
    /\ SF_vars(UsvLock) /\ WF_vars(UsvWrite) /\ WF_vars(UsvUnlock)

\* The instrument of the fair behaviours has the SMUs smua and smub.
InitLive == InitRT1 /\ device = <<"smua", "smub">>

LiveRT1 == InitLive /\ [][NextRT]_vars /\ FairRT

\* ================================================================ properties
\* This step of the system appends the signal `name` of thread t to the queue.
Emitted(name, t) ==
    /\ Len(queue') = Len(queue) + 1
    /\ queue'[Len(queue')].sig = name
    /\ queue'[Len(queue')].src = t

\* The signal `name` of thread t waits in the queue.
Queued(name, t) ==
    \E i \in 1 .. Len(queue) : queue[i].sig = name /\ queue[i].src = t

\* Thread t is inside the sampling loop of run() in real-device mode.
InSamplingLoop(t) ==
    /\ ~rt[t].simulation_mode
    /\ rt[t].pc \in {"loop", "measure_v", "measure_i", "recover", "err_check",
                     "append_t", "append_v", "append_c", "sleep"}

\* C1: in real-device mode the thread emits error_sig from its sampling
\* loop, and leaves the loop for that reason, only when three read attempts
\* in a row have failed; after one or two failed reads in a row it goes
\* back to the loop test without emitting and, the flag still set, reads
\* again.
C1_RetryThreeTimes ==
    [][\A t \in RtIds : InSamplingLoop(t) =>
         /\ Emitted("error", t) => rt[t].streak = 3 /\ rt'[t].pc = "finally"
         /\ rt'[t].pc = "finally" =>
              \/ rt[t].pc = "loop" /\ ~rt[t].running
              \/ rt[t].streak = 3 /\ Emitted("error", t)
         /\ (rt[t].pc = "err_check" /\ rt'[t].pc # "err_check") =>
              IF rt[t].streak \in {1, 2}
                THEN rt'[t].pc = "loop" /\ queue' = queue
                ELSE rt[t].streak = 3 /\ Emitted("error", t)
         /\ (rt[t].pc = "loop" /\ rt'[t].pc # "loop" /\ rt[t].running) =>
              rt'[t].pc = "measure_v"
      ]_vars

\* A real-device run that has given up after three failed reads.
C1_Witness ==
    \E t \in RtIds :
        /\ ~rt[t].simulation_mode /\ rt[t].pc = "finally"
        /\ rt[t].streak = 3 /\ Queued("error", t)

\* C2: the step that ends a run of the sweep thread emits exactly one
\* signal of that thread, error_sig when a driver call of the run raised
\* (the sweep, the beep or the reset) and finished_sig otherwise, and no
\* other step emits a signal of the sweep thread.
C2_ExactlyOneReport ==
    [][\A s \in SwIds :
         IF mt[s].pc # "done" /\ mt'[s].pc = "done"
           THEN /\ mt'[s].raised_at # "none" => Emitted("sweep_error", s)
                /\ mt'[s].raised_at = "none" => Emitted("sweep_done", s)
           ELSE ~Emitted("sweep_error", s) /\ ~Emitted("sweep_done", s)
      ]_vars

\* A run whose reset raised after the sweep and the beep returned.
C2_Witness ==
    \E s \in SwIds :
        /\ mt[s].pc = "done" /\ mt[s].raised_at = "reset"
        /\ Queued("sweep_error", s) /\ ~Queued("sweep_done", s)

\* The UI thread plots the lists of thread t while t is between the
\* appends of one sample.
ListsShared(t) ==
    /\ uiPc = "plot" /\ uiArg = t
    /\ rt[t].pc \in {"append_v", "append_c"}

\* The UI thread is inside keithley.apply_voltage while thread t is inside
\* a read or the reset of the same instrument handle.
HandleShared(t) ==
    /\ uiPc = "apply_voltage"
    /\ rt[t].pc \in {"measure_v", "measure_i", "recover"}

\* C3: in no reachable state does the UI thread use the sample lists or
\* the instrument handle while a background thread is using them.
C3_NoConcurrentAccess ==
    \A t \in RtIds : ~ListsShared(t) /\ ~HandleShared(t)

\* C4: current_voltage is read by the simulation loop and written by
\* update_simulation_voltage only with the mutex held by the accessing
\* thread, the two accesses never overlap, the simulation loop that waits
\* for the mutex obtains it and update_simulation_voltage, once it waits
\* for the mutex, returns.
C4_SetpointUnderMutex ==
    /\ [](\A t \in RtIds :
            /\ rt[t].pc \in {"sim_read", "sim_unlock"} => rt[t].lock = "thread"
            /\ (uiPc \in {"usv_write", "usv_unlock"} /\ realtime_thread = t)
                  => rt[t].lock = "ui"
            /\ ~(rt[t].pc = "sim_read" /\ uiPc = "usv_write"
                 /\ realtime_thread = t))
    /\ \A t \in RtIds : (rt[t].pc = "sim_lock") ~> (rt[t].pc = "sim_read")
    /\ (uiPc = "usv_lock") ~> (uiPc = "idle")

\* The UI thread waits for the mutex the simulation loop holds.
C4_Witness ==
    /\ uiPc = "usv_lock"
    /\ rt[realtime_thread].pc = "sim_read"
    /\ rt[realtime_thread].lock = "thread"

\* C5: once running is false the thread takes the exit at its next loop
\* test and starts no sample, in simulation and in real-device mode, and
\* every thread whose flag is cleared ends with finished_sig emitted.
C5_PolledCancellation ==
    /\ [][\A t \in RtIds :
            /\ (rt[t].pc \in {"loop", "sim_loop"} /\ ~rt[t].running
                /\ rt'[t].pc # rt[t].pc) => rt'[t].pc = "finally"
            /\ (rt[t].pc = "finally" /\ rt'[t].pc # "finally") =>
                  rt'[t].pc = "done" /\ Emitted("finished", t)
         ]_vars
    /\ \A t \in RtIds :
         (isRunning(t) /\ ~rt[t].running) ~> (rt[t].pc = "done")

\* A real-device thread that is stopped while it retries a failed read.
C5_Witness ==
    \E t \in RtIds :
        /\ ~rt[t].simulation_mode /\ ~rt[t].running
        /\ rt[t].pc = "err_check" /\ rt[t].streak \in {1, 2}

\* C6: no exception raised by a driver call leaves a user-triggered
\* handler (on_sweep_clicked, on_abort_clicked, on_connect_clicked,
\* on_disconnect_clicked, on_start_realtime_clicked, on_save_clicked,
\* on_load_clicked, exit_).
C6_NoExceptionPropagates == propagated = "none"

\* C7: while the SMU list has fewer than three entries, the gate and the
\* drain selector have different current entries after every user change,
\* update_smu_list and load_defaults.
C7_DistinctWithTwoSmus ==
    Len(sweep.smu_list) < 3 => sweep.smu_gate # sweep.smu_drain

\* As stated, for any number of SMUs: the gate and the drain selector
\* never have the same current entry.
C7_AlwaysDistinct == sweep.smu_gate # sweep.smu_drain

\* With two SMUs the user has moved the gate to the second one and the
\* slot has moved the drain to the first.
C7_Witness ==
    /\ Len(sweep.smu_list) = 2
    /\ sweep.smu_gate = 2 /\ sweep.smu_drain = 1

\* 0.001 / freq < tInt < 25 / freq, tInt in microseconds.
TIntInRange == 1000 < sweep.t_int * linefreq /\ sweep.t_int * linefreq < 25000000

\* C8: a sweep thread is created and started only with an integration
\* time inside the range of the line frequency; a click that gets as far
\* as the range test with a time outside it shows the parameter error,
\* creates no thread and leaves every control as it is.
C8_SweepOnlyWithValidTInt ==
    [][/\ (\E s \in SwIds : mt[s].pc = "unborn" /\ mt'[s].pc # "unborn")
            => TIntInRange
       /\ (on_sweep_clicked /\ ~busy /\ tab \in {0, 1, 2}
           /\ propagated' = "none" /\ ~TIntInRange)
            => /\ msg' = "Parameter Error"
               /\ UNCHANGED <<mt, measureThread, gui>>
      ]_vars

\* The click was refused for a time outside the range: no thread exists
\* and the run button is still enabled.
C8_Witness ==
    /\ msg = "Parameter Error" /\ ~TIntInRange
    /\ \A s \in SwIds : mt[s].pc = "unborn"
    /\ gui.run /\ ~gui.abort

\* C9: a thread started with no instrument connected emits no error and
\* takes no reading, and no instrument call is made for it by the
\* handlers of its voltage changes and of its end.
C9_SimulationTouchesNoInstrument ==
    /\ ~simIO
    /\ \A t \in RtIds : rt[t].simulation_mode =>
         /\ rt[t].pc \notin {"measure_v", "measure_i", "recover"}
         /\ ~Queued("error", t)

\* C10: on_load_default shows again every setting as it was at the last
\* on_save_default.
C10_LoadRestoresSaved ==
    [][(on_load_default /\ snap # NoSnap) => Shown' = snap]_vars

\* C11: the error count is the number of read attempts that have failed
\* since the last successful one: a successful read sets it back to zero,
\* and while fewer than three attempts in a row have failed and the flag
\* is set the thread emits no error_sig and does not leave its loop.
C11_CountsConsecutiveOnly ==
    /\ [](\A t \in RtIds :
            (InSamplingLoop(t) /\ rt[t].pc \notin {"append_t", "append_v",
                                                   "append_c"})
              => rt[t].consecutive_errors = rt[t].streak)
    /\ [][\A t \in RtIds :
            (InSamplingLoop(t) /\ rt[t].streak < 3 /\ rt[t].running)
              => ~Emitted("error", t) /\ rt'[t].pc # "finally"
         ]_vars

\* A run that goes on, with no error reported, after more failed reads
\* than the limit, no three of them in a row.
C11_Witness ==
    \E t \in RtIds :
        /\ InSamplingLoop(t) /\ rt[t].running
        /\ rt[t].failed > max_consecutive_errors /\ rt[t].streak < 3
        /\ Len(rt[t].time_data) >= 1
        /\ ~Queued("error", t)

\* C12: in real-device mode every read attempt of a run but the first
\* begins after time.sleep(self.interval) has returned since the attempt
\* before it began, also when that attempt failed.
C12_WaitsBetweenAttempts ==
    [][\A t \in RtIds :
         (/\ ~rt[t].simulation_mode
          /\ rt[t].pc = "loop" /\ rt'[t].pc = "measure_v"
          /\ (rt[t].streak > 0 \/ Len(rt[t].time_data) > 0))
           => rt[t].waited
      ]_vars

\* C13: while a real-time thread is running the Start button is disabled
\* and the Stop button is enabled, and no two real-time threads run at the
\* same time.
C13_StartOffStopOnWhileRunning ==
    /\ \A t \in RtIds : isRunning(t) => ~gui.start /\ gui.stop
    /\ Cardinality({t \in RtIds : isRunning(t)}) <= 1

\* C14: the sweep thread and a real-device real-time thread are never
\* inside driver calls at the same time; no sweep thread is started while
\* a real-device real-time thread runs and no real-device real-time thread
\* is started while a sweep thread runs.
C14_NoConcurrentInstrumentIO ==
    /\ [](~ \E s \in SwIds, t \in RtIds :
             /\ mt[s].pc \in {"measure", "beep", "reset"}
             /\ ~rt[t].simulation_mode
             /\ rt[t].pc \in {"measure_v", "measure_i", "recover"})
    /\ [][(\E s \in SwIds : mt[s].pc = "unborn" /\ mt'[s].pc = "run")
            => ~ \E t \in RtIds : isRunning(t) /\ ~rt[t].simulation_mode
         ]_vars
    /\ [][(\E t \in RtIds : /\ rt[t].pc = "unborn" /\ rt'[t].pc = "run"
                            /\ ~rt'[t].simulation_mode)
            => ~ \E s \in SwIds : mt[s].pc \notin {"unborn", "done"}
         ]_vars

\* The positions in the queue of the signals `name` of thread t.
QueuedAt(name, t) ==
    {i \in 1 .. Len(queue) : queue[i].sig = name /\ queue[i].src = t}

\* C15: a run of the real-time thread emits finished_sig in the step that
\* ends it and in no other, and nothing after it; it emits error_sig at
\* most once, in a step that takes it to the finally clause, from where
\* the only step is the one that emits finished_sig; so no queue holds two
\* finished or two error signals of one thread, or a signal of the thread
\* behind its finished signal.
C15_FinishedOnceAndLast ==
    /\ [][\A t \in RtIds :
            /\ Emitted("finished", t) <=>
                 (rt[t].pc = "finally" /\ rt'[t].pc = "done")
            /\ rt[t].pc = "done" =>
                 /\ rt'[t].pc = "done"
                 /\ ~Emitted("data", t) /\ ~Emitted("error", t)
            /\ Emitted("error", t) =>
                 rt[t].pc \in {"run", "err_check"} /\ rt'[t].pc = "finally"
            /\ rt[t].pc = "finally" =>
                 /\ rt'[t].pc \in {"finally", "done"}
                 /\ ~Emitted("data", t) /\ ~Emitted("error", t)
         ]_vars
    /\ [](\A t \in RtIds :
            /\ Cardinality(QueuedAt("finished", t)) <= 1
            /\ Cardinality(QueuedAt("error", t)) <= 1
            /\ \A i \in QueuedAt("finished", t) :
                 \A j \in 1 .. Len(queue) : queue[j].src = t => j <= i)

\* A real-device run that gave up after three failed reads has ended: its
\* error signal and, behind it, its finished signal wait in the queue.
C15_Witness ==
    \E t \in RtIds :
        /\ rt[t].pc = "done" /\ ~rt[t].simulation_mode /\ rt[t].streak = 3
        /\ \E i \in QueuedAt("error", t), j \in QueuedAt("finished", t) : i < j

\* The sweep thread s has been started and has not returned from run().
SweepRunning(s) == mt[s].pc \notin {"unborn", "done"}

\* C16: at no time are two sweep threads running, no step starts a sweep
\* thread while another one is running, and no step starts one while
\* keithley.busy is true.
C16_OneSweepThread ==
    /\ [](Cardinality({s \in SwIds : SweepRunning(s)}) <= 1)
    /\ [][(\E s \in SwIds : mt[s].pc = "unborn" /\ mt'[s].pc = "run")
            => ~busy /\ ~ \E u \in SwIds : SweepRunning(u)
         ]_vars

\* The signal that ends the run of sweep thread s waits in the queue.
SweepReportQueued(s) ==
    \E i \in 1 .. Len(queue) :
        queue[i].src = s /\ queue[i].sig \in {"sweep_done", "sweep_error"}

\* C17: from the start of a sweep thread until on_measure_done or
\* on_measure_error has handled its signal the Run button is disabled and
\* the Abort button is enabled, and the handler leaves the Run button
\* enabled and the Abort button disabled.
C17_BusyUntilHandled ==
    /\ [](\A s \in SwIds :
            (SweepRunning(s) \/ SweepReportQueued(s))
              => ~gui.run /\ gui.abort)
    /\ [][(/\ queue # <<>>
           /\ Head(queue).sig \in {"sweep_done", "sweep_error"}
           /\ queue' = Tail(queue))
            => gui'.run /\ ~gui'.abort
         ]_vars

\* The last element of a list, 0 for the empty list.
LastOf(list) == IF list = <<>> THEN 0 ELSE list[Len(list)]

\* C18: when on_realtime_data takes a data signal from the queue, the
\* three lists of the dict, which are the lists of the emitting thread,
\* have equal length and end with the signal's last_value triple.
C18_ConsistentSnapshot ==
    [][(/\ queue # <<>> /\ Head(queue).sig = "data"
        /\ queue' = Tail(queue))
         => LET r == rt[Head(queue).src]
                last_value == Head(queue).last
            IN  /\ Len(r.time_data) = Len(r.voltage_data)
                /\ Len(r.voltage_data) = Len(r.current_data)
                /\ <<LastOf(r.time_data), LastOf(r.voltage_data),
                     LastOf(r.current_data)>> = last_value
      ]_vars

\* C19: in simulation mode the voltage a sample reports, read from
\* current_voltage, is the value the UI voltage field holds when the
\* sample is taken.
C19_SampleReportsSetpoint ==
    [][\A t \in RtIds :
         (rt[t].simulation_mode /\ rt[t].pc = "sim_read"
          /\ rt'[t].pc = "sim_unlock")
           => rt'[t].v = realtime_voltage
      ]_vars

\* C20: when on_measure_done handles the finished_sig of a sweep it opens
\* the save dialog exactly when the abort event is not set, not for a
\* sweep since whose start on_abort_clicked has run, and always for a
\* sweep since whose start it has not run.
C20_SaveDialogUnlessAborted ==
    [][(/\ queue # <<>> /\ Head(queue).sig = "sweep_done"
        /\ queue' = Tail(queue))
         => /\ (msg' = "save dialog") <=> ~abort_event
            /\ (msg' = "save dialog") <=> ~mt[Head(queue).src].aborted
      ]_vars

\* The real-device run of thread t went through its sampling loop and has
\* ended by a stop request or by the abort after three failed reads.
EndedByStopOrAbort(t) ==
    /\ ~rt[t].simulation_mode /\ rt[t].pc = "done"
    /\ \/ rt[t].streak = 3
       \/ ~rt[t].running /\ Len(rt[t].time_data) >= 1

\* C21: when on_realtime_finished handles the finished_sig of a real-device
\* run that ended by a stop request or by the abort after repeated errors,
\* and the instrument is connected, it switches off an output, the SMU it
\* addresses is the one the thread was started with, to which the voltage
\* was applied, and it leaves Start enabled, Stop disabled and the SMU and
\* interval fields enabled.
C21_OutputOffAndControlsReset ==
    [][(/\ queue # <<>> /\ Head(queue).sig = "finished"
        /\ queue' = Tail(queue)
        /\ EndedByStopOrAbort(Head(queue).src)
        /\ connected)
         => /\ OutputOffDue
            /\ CurrentText(smu_list, realtime_smu) = rt[Head(queue).src].smu_name
            /\ gui'.start /\ ~gui'.stop
            /\ gui'.smuField /\ gui'.intervalField
      ]_vars

\* The step creates and starts a real-time thread.
ThreadStarted ==
    \E t \in RtIds : rt[t].pc = "unborn" /\ rt'[t].pc = "run"

\* The step leaves self.realtime_thread, every thread object and the
\* enabled flags of the Start and Stop buttons and of the SMU and interval
\* fields as they are.
StartLeavesAll ==
    /\ realtime_thread' = realtime_thread /\ rt' = rt
    /\ gui'.start = gui.start /\ gui'.stop = gui.stop
    /\ gui'.smuField = gui.smuField
    /\ gui'.intervalField = gui.intervalField

\* C22: a step of on_start_realtime_clicked taken with the placeholder
\* selected, or in which apply_voltage raises, starts no thread and leaves
\* realtime_thread, the threads, the Start and Stop buttons and the SMU
\* and interval fields unchanged; a step taken in simulation mode either
\* starts the thread (Ok) or leaves all of them unchanged (Cancel).
C22_RefusedStartChangesNothing ==
    [][on_start_realtime_clicked =>
         /\ CurrentText(smu_list, realtime_smu) = Placeholder
              => msg' = "parameter error" /\ ~ThreadStarted /\ StartLeavesAll
         /\ msg' = "set error" => ~ThreadStarted /\ StartLeavesAll
         /\ msg' = "simulation mode" => ThreadStarted \/ StartLeavesAll
         /\ ~ThreadStarted => StartLeavesAll
      ]_vars

\* apply_voltage has raised in real-device mode: the dialog was shown, no
\* thread exists and the controls are as before the click.
C22_Witness ==
    /\ msg = "set error" /\ connected
    /\ realtime_thread = 0 /\ \A t \in RtIds : rt[t].pc = "unborn"
    /\ gui.start /\ ~gui.stop /\ gui.smuField /\ gui.intervalField

====
